---- MODULE Spec2Model ----
(***************************************************************************)
(* The to-do list HTTP service of src/index.js: one in-memory array of     *)
(* users, four middlewares (guards) and eight routes.  Every request runs  *)
(* its middlewares and its handler synchronously to completion, so one     *)
(* request is one atomic step.                                             *)
(***************************************************************************)
EXTENDS Integers, Sequences, FiniteSets, TLC

VARIABLES
    users,      \* the array `users` (index.js:10)
    nextId,     \* number of the next identifier uuidv4() will draw
    req,        \* the request served last, with what the middlewares attached
    response,   \* the response sent to it
    ran,        \* the stages (middlewares, handler) that ran for it, in order
    deleted     \* history: ids of the tasks removed by DELETE /todos/:id so far

vars == <<users, nextId, req, response, ran, deleted>>

-----------------------------------------------------------------------------
(* Bounds of the model *)

\* Spec: identifiers the generator may hand out (users and tasks together).
MaxId == 4

\* SpecUsers: identifiers the generator may hand out.
MaxIdUsers == 3

\* SpecQuota: identifiers the generator may hand out (1 user, the rest tasks).
MaxIdQuota == 12

(* Program constant *)

\* `user.todos.length < 10` (index.js:37)
TodoLimit == 10

-----------------------------------------------------------------------------
(* Identifiers.  An id is a text; what the program does with a text is     *)
(* test it against the UUID syntax and compare it for equality, so a text  *)
(* is modelled by its syntax class, its version digit and its payload.     *)

Uuid(ver, n) == [kind |-> "uuid", ver |-> ver, n |-> n]

\* a path parameter such as "not-a-uuid"
NotUuid == [kind |-> "text", ver |-> 0, n |-> 0]

\* no path parameter on the route
NoId == [kind |-> "none", ver |-> 0, n |-> 0]

\* uuidv4(): the n-th draw is a fresh version-4 UUID
uuidv4(n) == Uuid(4, n)

\* validate(id, 4): the uuid package's validate takes ONE parameter and tests
\* the text against the UUID pattern, whose version digit is [1-5]; the
\* second argument is ignored.
validate(id, version) == id.kind = "uuid" /\ id.ver \in 1..5

-----------------------------------------------------------------------------
(* Dates *)

\* new Date(deadline): an ISO date text becomes a time value, any other text
\* the Invalid Date.
ParseDate(text) ==
    CASE text = "2030-01-01" -> [valid |-> TRUE, ms |-> 1893456000]
      [] text = "2031-06-15" -> [valid |-> TRUE, ms |-> 1939248000]
      [] OTHER -> [valid |-> FALSE, ms |-> 0]

-----------------------------------------------------------------------------
(* Requests and responses *)

NoBody == [kind |-> "none"]

\* request.todo is a reference to a task object; an object in the store is
\* identified by where it lives: the index of its owner in users and its
\* 0-based position in the owner's todos.
NoTodo == [owner |-> 0, pos |-> 0 - 1]

\* an incoming request: request.user (0) and request.todo are undefined
Request(route, username, id, body) ==
    [route |-> route, username |-> username, id |-> id, body |-> body,
     user |-> 0, todo |-> NoTodo]

\* response.status(s).json({ error: message })
Error(s, message) == [status |-> s, error |-> message, body |-> NoBody]

\* response.status(s).json(value) / .send()
Json(s, kind, value) ==
    [status |-> s, error |-> "", body |-> [kind |-> kind, val |-> value]]

NoResponse == [status |-> 0, error |-> "", body |-> NoBody]

\* a middleware either calls next() or answers
Continue(request) == [next |-> TRUE, request |-> request, response |-> NoResponse]
Reject(request, resp) == [next |-> FALSE, request |-> request, response |-> resp]

-----------------------------------------------------------------------------
(* Array helpers *)

Min(S) == CHOOSE x \in S : \A y \in S : x <= y
Max(S) == CHOOSE x \in S : \A y \in S : x >= y

\* const [x] = users.filter((user) => user.username === username):
\* the index of the first match, 0 for undefined
FirstByUsername(us, username) ==
    LET found == {i \in 1..Len(us) : us[i].username = username}
    IN IF found = {} THEN 0 ELSE Min(found)

\* const [user] = users.filter((account) => account.id === id)
FirstById(us, id) ==
    LET found == {i \in 1..Len(us) : us[i].id = id}
    IN IF found = {} THEN 0 ELSE Min(found)

\* 0-based positions of the tasks of a list whose id is `id`
PositionsOf(todos, id) == {p \in 0..(Len(todos) - 1) : todos[p + 1].id = id}

\* user.todos.indexOf(todo): compares object references, -1 when absent
IndexOf(us, user, todo) ==
    IF todo.owner = user /\ todo.pos >= 0 /\ todo.pos < Len(us[user].todos)
    THEN todo.pos
    ELSE 0 - 1

\* array.splice(start, count) on a 0-based start: the array that is left
Splice(arr, start, count) ==
    SubSeq(arr, 1, start) \o SubSeq(arr, start + count + 1, Len(arr))

-----------------------------------------------------------------------------
(* The four middlewares *)

\* index.js:17-27
checksExistsUserAccount(us, request) ==
    LET account == FirstByUsername(us, request.username)
    IN IF account = 0
       THEN Reject(request, Error(404, "User not found!"))
       ELSE Continue([request EXCEPT !.user = account])

\* faulty variant: the quota test ignores the pro flag
QuotaIgnoresPro(us, request) ==
    LET user == us[request.user]
    IN IF Len(user.todos) < TodoLimit
       THEN Continue(request)
       ELSE Reject(request, Error(403, "User is not PRO"))

\* faulty variant: the quota test is off by one (<= instead of <)
QuotaOffByOne(us, request) ==
    LET user == us[request.user]
    IN IF Len(user.todos) <= TodoLimit \/ user.pro
       THEN Continue(request)
       ELSE Reject(request, Error(403, "User is not PRO"))

\* index.js:34-42
checksCreateTodosUserAvailability(us, request) ==
    LET user == us[request.user]
    IN IF Len(user.todos) < TodoLimit \/ user.pro
       THEN Continue(request)
       ELSE Reject(request, Error(403, "User is not PRO"))

\* faulty variant: the task is looked up in every user's list, not only in the list
\* of the user the header names
TodoExistsAnyOwner(us, request) ==
    LET id == request.id
        account == FirstByUsername(us, request.username)
        validateId == validate(id, 4)
        owners == {i \in 1..Len(us) : PositionsOf(us[i].todos, id) # {}}
    IN IF ~validateId
       THEN Reject(request, Error(400, "Id is not uuid"))
       ELSE IF account # 0
       THEN IF owners # {}
            THEN LET o == IF account \in owners THEN account ELSE Min(owners)
                 IN Continue([request EXCEPT
                        !.user = account,
                        !.todo = [owner |-> o,
                                  pos |-> Max(PositionsOf(us[o].todos, id))]])
            ELSE Reject(request, Error(404, "Todo not found"))
       ELSE Reject(request, Error(404, "User not found"))

\* index.js:52-77
checksTodoExists(us, request) ==
    LET id == request.id
        account == FirstByUsername(us, request.username)
        validateId == validate(id, 4)
    IN IF ~validateId
       THEN Reject(request, Error(400, "Id is not uuid"))
       ELSE IF account # 0
       THEN LET matches == PositionsOf(us[account].todos, id)
                todoIdExists == matches # {}
            IN IF todoIdExists
               \* the loop assigns request.todo at every match: the last stays
               THEN Continue([request EXCEPT
                        !.user = account,
                        !.todo = [owner |-> account, pos |-> Max(matches)]])
               ELSE Reject(request, Error(404, "Todo not found"))
       ELSE Reject(request, Error(404, "User not found"))

\* index.js:85-93
findUserById(us, request) ==
    LET user == FirstById(us, request.id)
    IN IF user = 0
       THEN Reject(request, Error(404, "User not found!"))
       ELSE Continue([request EXCEPT !.user = user])

-----------------------------------------------------------------------------
(* The route handlers.  A handler gets the store, the generator's position, *)
(* the clock's reading and the request the middlewares passed on, and gives *)
(* the store, the generator's position and the response.                    *)

Done(us, nid, resp) == [users |-> us, nextId |-> nid, response |-> resp]

\* faulty variant: no test for a username that is already taken
PostUsersNoCheck(us, nid, now, request) ==
    LET user == [id |-> uuidv4(nid), name |-> request.body.name,
                 username |-> request.body.username, pro |-> FALSE,
                 todos |-> <<>>]
    IN Done(Append(us, user), nid + 1, Json(201, "user", user))

\* index.js:95-117
PostUsers(us, nid, now, request) ==
    LET usernameAlreadyExists ==
            \E i \in 1..Len(us) : us[i].username = request.body.username
        user == [id |-> uuidv4(nid), name |-> request.body.name,
                 username |-> request.body.username, pro |-> FALSE,
                 todos |-> <<>>]
    IN IF usernameAlreadyExists
       THEN Done(us, nid, Error(400, "Username already exists"))
       ELSE Done(Append(us, user), nid + 1, Json(201, "user", user))

\* index.js:119-123
GetUser(us, nid, now, request) ==
    Done(us, nid, Json(200, "user", us[request.user]))

\* faulty variant: no test for a plan that is already active
PatchProNoCheck(us, nid, now, request) ==
    LET after == [us EXCEPT ![request.user].pro = TRUE]
    IN Done(after, nid, Json(200, "user", after[request.user]))

\* index.js:125-137
PatchPro(us, nid, now, request) ==
    IF us[request.user].pro
    THEN Done(us, nid, Error(400, "Pro plan is already activated."))
    ELSE LET after == [us EXCEPT ![request.user].pro = TRUE]
         IN Done(after, nid, Json(200, "user", after[request.user]))

\* faulty variant: the tasks of every user are listed
GetTodosOfAll(us, nid, now, request) ==
    LET RECURSIVE Concat(_)
        Concat(i) == IF i > Len(us) THEN <<>> ELSE us[i].todos \o Concat(i + 1)
    IN Done(us, nid, Json(200, "todos", Concat(1)))

\* index.js:139-143
GetTodos(us, nid, now, request) ==
    Done(us, nid, Json(200, "todos", us[request.user].todos))

\* index.js:149-164
PostTodos(us, nid, now, request) ==
    LET newTodo == [id |-> uuidv4(nid), title |-> request.body.title,
                    deadline |-> ParseDate(request.body.deadline),
                    done |-> FALSE, created_at |-> now]
        after == [us EXCEPT ![request.user].todos = Append(@, newTodo)]
    IN Done(after, nid + 1, Json(201, "todo", newTodo))

\* the task object request.todo refers to
Deref(us, todo) == us[todo.owner].todos[todo.pos + 1]

\* index.js:167-175
PutTodo(us, nid, now, request) ==
    LET todo == request.todo
        after == [us EXCEPT ![todo.owner].todos[todo.pos + 1] =
                     [@ EXCEPT !.title = request.body.title,
                               !.deadline = ParseDate(request.body.deadline)]]
    IN Done(after, nid, Json(200, "todo", Deref(after, todo)))

\* faulty variant: the flag is toggled instead of set
PatchDoneToggle(us, nid, now, request) ==
    LET todo == request.todo
        after == [us EXCEPT ![todo.owner].todos[todo.pos + 1].done = ~@]
    IN Done(after, nid, Json(200, "todo", Deref(after, todo)))

\* index.js:177-183
PatchDone(us, nid, now, request) ==
    LET todo == request.todo
        after == [us EXCEPT ![todo.owner].todos[todo.pos + 1].done = TRUE]
    IN Done(after, nid, Json(200, "todo", Deref(after, todo)))

\* faulty variant: splice(todoIndex) without a count removes up to the end of the list
DeleteTodoToEnd(us, nid, now, request) ==
    LET user == request.user
        todoIndex == IndexOf(us, user, request.todo)
    IN IF todoIndex = 0 - 1
       THEN Done(us, nid, Error(404, "Todo not found"))
       ELSE Done([us EXCEPT ![user].todos =
                      Splice(@, todoIndex, Len(@) - todoIndex)],
                 nid, [status |-> 204, error |-> "", body |-> NoBody])

\* index.js:189-201
DeleteTodo(us, nid, now, request) ==
    LET user == request.user
        todoIndex == IndexOf(us, user, request.todo)
    IN IF todoIndex = 0 - 1
       THEN Done(us, nid, Error(404, "Todo not found"))
       ELSE Done([us EXCEPT ![user].todos = Splice(@, todoIndex, 1)],
                 nid, [status |-> 204, error |-> "", body |-> NoBody])

-----------------------------------------------------------------------------
(* The dispatcher: the middlewares of a route in the order of its           *)
(* registration, then its handler.                                          *)

\* faulty variant: DELETE /todos/:id registers its two middlewares in the opposite
\* order
GuardsSwapped(route) ==
    CASE route = "POST /users"           -> <<>>
      [] route = "GET /users/:id"        -> <<"findUserById">>
      [] route = "PATCH /users/:id/pro"  -> <<"findUserById">>
      [] route = "GET /todos"            -> <<"checksExistsUserAccount">>
      [] route = "POST /todos"           -> <<"checksExistsUserAccount",
                                              "checksCreateTodosUserAvailability">>
      [] route = "PUT /todos/:id"        -> <<"checksTodoExists">>
      [] route = "PATCH /todos/:id/done" -> <<"checksTodoExists">>
      [] route = "DELETE /todos/:id"     -> <<"checksTodoExists",
                                              "checksExistsUserAccount">>

\* the middlewares named in app.post / app.get / ... (index.js:95-202)
Guards(route) ==
    CASE route = "POST /users"           -> <<>>
      [] route = "GET /users/:id"        -> <<"findUserById">>
      [] route = "PATCH /users/:id/pro"  -> <<"findUserById">>
      [] route = "GET /todos"            -> <<"checksExistsUserAccount">>
      [] route = "POST /todos"           -> <<"checksExistsUserAccount",
                                              "checksCreateTodosUserAvailability">>
      [] route = "PUT /todos/:id"        -> <<"checksTodoExists">>
      [] route = "PATCH /todos/:id/done" -> <<"checksTodoExists">>
      [] route = "DELETE /todos/:id"     -> <<"checksExistsUserAccount",
                                              "checksTodoExists">>

RunGuard(name, us, request) ==
    CASE name = "checksExistsUserAccount" -> checksExistsUserAccount(us, request)
      [] name = "checksCreateTodosUserAvailability" ->
             checksCreateTodosUserAvailability(us, request)
      [] name = "checksTodoExists" -> checksTodoExists(us, request)
      [] name = "findUserById" -> findUserById(us, request)

Handler(us, nid, now, request) ==
    CASE request.route = "POST /users"           -> PostUsers(us, nid, now, request)
      [] request.route = "GET /users/:id"        -> GetUser(us, nid, now, request)
      [] request.route = "PATCH /users/:id/pro"  -> PatchPro(us, nid, now, request)
      [] request.route = "GET /todos"            -> GetTodos(us, nid, now, request)
      [] request.route = "POST /todos"           -> PostTodos(us, nid, now, request)
      [] request.route = "PUT /todos/:id"        -> PutTodo(us, nid, now, request)
      [] request.route = "PATCH /todos/:id/done" -> PatchDone(us, nid, now, request)
      [] request.route = "DELETE /todos/:id"     -> DeleteTodo(us, nid, now, request)

\* Express calls the middlewares one after the other; one that answers
\* without calling next() ends the request.
RECURSIVE RunChain(_, _, _, _)
RunChain(names, us, request, stages) ==
    IF names = <<>>
    THEN [next |-> TRUE, request |-> request, response |-> NoResponse,
          ran |-> stages]
    ELSE LET out == RunGuard(Head(names), us, request)
         IN IF out.next
            THEN RunChain(Tail(names), us, out.request,
                          Append(stages, Head(names)))
            ELSE [next |-> FALSE, request |-> out.request,
                  response |-> out.response,
                  ran |-> Append(stages, Head(names))]

Dispatch(us, nid, now, request) ==
    LET chain == RunChain(Guards(request.route), us, request, <<>>)
    IN IF chain.next
       THEN LET out == Handler(us, nid, now, chain.request)
            IN [users |-> out.users, nextId |-> out.nextId,
                response |-> out.response, request |-> chain.request,
                ran |-> Append(chain.ran, "handler")]
       ELSE [users |-> us, nextId |-> nid, response |-> chain.response,
             request |-> chain.request, ran |-> chain.ran]

\* ids of all the tasks in the store
TodoIds(us) ==
    UNION {{us[i].todos[p].id : p \in 1..Len(us[i].todos)} : i \in 1..Len(us)}

NoRequest == Request("-", "-", NoId, NoBody)

\* One request, served to completion: the middlewares and the handler are
\* synchronous, so nothing interleaves with them.  The request and response
\* objects live until the response is flushed (EndRequest).
Serve(request, now) ==
    /\ req = NoRequest
    /\ \E out \in {Dispatch(users, nextId, now, request)} :
          /\ users' = out.users
          /\ nextId' = out.nextId
          /\ req' = out.request
          /\ response' = out.response
          /\ ran' = out.ran
          /\ deleted' = deleted \cup (TodoIds(users) \ TodoIds(out.users))

\* The response is on the wire and the request's objects are dropped; the
\* store keeps what the handler wrote.
EndRequest ==
    /\ req # NoRequest
    /\ req' = NoRequest
    /\ response' = NoResponse
    /\ ran' = <<>>
    /\ UNCHANGED <<users, nextId, deleted>>

-----------------------------------------------------------------------------
(* The requests a client can send: one action per route *)

NoHeader == "-"
NoTime == "-"

ReqPostUsers(name, username) ==
    Serve(Request("POST /users", NoHeader, NoId,
                  [kind |-> "user", name |-> name, username |-> username]),
          NoTime)

ReqGetUser(id) ==
    Serve(Request("GET /users/:id", NoHeader, id, NoBody), NoTime)

ReqPatchPro(id) ==
    Serve(Request("PATCH /users/:id/pro", NoHeader, id, NoBody), NoTime)

ReqGetTodos(username) ==
    Serve(Request("GET /todos", username, NoId, NoBody), NoTime)

ReqPostTodos(username, body, now) ==
    Serve(Request("POST /todos", username, NoId, body), now)

ReqPutTodo(username, id, body) ==
    Serve(Request("PUT /todos/:id", username, id, body), NoTime)

ReqPatchDone(username, id) ==
    Serve(Request("PATCH /todos/:id/done", username, id, NoBody), NoTime)

ReqDeleteTodo(username, id) ==
    Serve(Request("DELETE /todos/:id", username, id, NoBody), NoTime)

\* the state after `const users = []` and app.listen: nothing served yet
Init ==
    /\ users = <<>>
    /\ nextId = 1
    /\ req = NoRequest
    /\ response = NoResponse
    /\ ran = <<>>
    /\ deleted = {}

-----------------------------------------------------------------------------
(* Spec and SpecUsers: two usernames, every kind of path id, every task    *)
(* addressable.  Spec registers every user under one name and has room for *)
(* more tasks; SpecUsers registers users under two names.                  *)

Usernames == {"a", "b"}
Names == {"A"}
UsersNames == {"A", "B"}
NewBodies == {[kind |-> "todo", title |-> "x", deadline |-> "2030-01-01"]}
PutBodies == {[kind |-> "todo", title |-> "y", deadline |-> "soon"]}
Times == {"t1"}

\* a malformed id, a version-1 UUID, a version-4 UUID never handed out, and
\* every id handed out so far
PathIds == {NotUuid, Uuid(1, 1)} \cup {uuidv4(n) : n \in 0..(nextId - 1)}

\* any request of a client, while the generator has handed out at most `cap`
\* identifiers
Traffic(names, cap) ==
    \/ \E name \in names, username \in Usernames :
          ReqPostUsers(name, username) /\ nextId' <= cap + 1
    \/ \E id \in PathIds : ReqGetUser(id)
    \/ \E id \in PathIds : ReqPatchPro(id)
    \/ \E username \in Usernames : ReqGetTodos(username)
    \/ \E username \in Usernames, body \in NewBodies, now \in Times :
          ReqPostTodos(username, body, now) /\ nextId' <= cap + 1
    \/ \E username \in Usernames, id \in PathIds, body \in PutBodies :
          ReqPutTodo(username, id, body)
    \/ \E username \in Usernames, id \in PathIds : ReqPatchDone(username, id)
    \/ \E username \in Usernames, id \in PathIds : ReqDeleteTodo(username, id)
    \/ EndRequest

Next == Traffic(Names, MaxId)

Spec == Init /\ [][Next]_vars

NextUsers == Traffic(UsersNames, MaxIdUsers)

SpecUsers == Init /\ [][NextUsers]_vars

-----------------------------------------------------------------------------
(* SpecQuota: one user and enough identifiers to pass the limit of         *)
(* TodoLimit tasks; DELETE addresses any task, PUT and PATCH done the  *)
(* first task of the list.                                                 *)

QuotaUsernames == {"a"}
QuotaNames == {"A"}
QuotaBodies == {[kind |-> "todo", title |-> "x", deadline |-> "2030-01-01"]}
QuotaTimes == {"t1"}

QuotaUserIds == {NotUuid} \cup {users[i].id : i \in 1..Len(users)}

HeadIds ==
    {users[i].todos[1].id : i \in {j \in 1..Len(users) : users[j].todos # <<>>}}

QuotaTodoIds == {NotUuid} \cup TodoIds(users)

NextQuota ==
    \/ \E name \in QuotaNames, username \in QuotaUsernames :
          ReqPostUsers(name, username) /\ nextId' <= MaxIdQuota + 1
    \/ \E id \in QuotaUserIds : ReqGetUser(id)
    \/ \E id \in QuotaUserIds : ReqPatchPro(id)
    \/ \E username \in QuotaUsernames : ReqGetTodos(username)
    \/ \E username \in QuotaUsernames, body \in QuotaBodies, now \in QuotaTimes :
          ReqPostTodos(username, body, now) /\ nextId' <= MaxIdQuota + 1
    \/ \E username \in QuotaUsernames, id \in HeadIds, body \in QuotaBodies :
          ReqPutTodo(username, id, body)
    \/ \E username \in QuotaUsernames, id \in HeadIds :
          ReqPatchDone(username, id)
    \/ \E username \in QuotaUsernames, id \in QuotaTodoIds :
          ReqDeleteTodo(username, id)
    \/ EndRequest

SpecQuota == Init /\ [][NextQuota]_vars

-----------------------------------------------------------------------------
(* Properties *)

\* the step serves a request of this route
Served(route) == req = NoRequest /\ req'.route = route

\* the stage that answered the request served last
Answered == ran[Len(ran)]

\* a well-formed version-4 UUID
IsV4(id) == id.kind = "uuid" /\ id.ver = 4

\* C1: no two users of the store ever have the same username; POST /users
\* with a username a stored user holds answers 400 "Username already exists"
\* whatever the name and appends nothing; no other request adds a user or
\* changes a username.
UniqueUsernames ==
    \A i, j \in 1..Len(users) : users[i].username = users[j].username => i = j

C1_Step ==
    /\ Len(users') >= Len(users)
    /\ \A i \in 1..Len(users) : users'[i].username = users[i].username
    /\ Served("POST /users")
         /\ (\E i \in 1..Len(users) : users[i].username = req'.body.username)
       => /\ response' = Error(400, "Username already exists")
          /\ users' = users
    /\ ~Served("POST /users") => Len(users') = Len(users)

\* C1: usernames are unique in every state, and every step keeps the
\* usernames and refuses a registration under a username that is taken.
C1_UniqueUsernames == [](UniqueUsernames) /\ [][C1_Step]_vars

\* a registration refused for its username although its name is a new one
C1_Witness ==
    /\ req.route = "POST /users"
    /\ response = Error(400, "Username already exists")
    /\ \E i \in 1..Len(users) :
          /\ users[i].username = req.body.username
          /\ users[i].name # req.body.name

\* C2: POST /todos for an existing user is decided by the length of the list
\* and the pro flag: non-pro below 10 tasks gets 201 and one task more,
\* non-pro at 10 or more gets 403 "User is not PRO" and the same list, pro
\* always gets 201.
C2_Step ==
    Served("POST /todos") /\ FirstByUsername(users, req'.username) # 0
    => LET u == FirstByUsername(users, req'.username)
           grown == /\ response'.status = 201
                    /\ Len(users'[u].todos) = Len(users[u].todos) + 1
                    /\ SubSeq(users'[u].todos, 1, Len(users[u].todos))
                          = users[u].todos
       IN /\ ~users[u].pro /\ Len(users[u].todos) < 10 => grown
          /\ ~users[u].pro /\ Len(users[u].todos) >= 10
             => response' = Error(403, "User is not PRO") /\ users' = users
          /\ users[u].pro => grown

\* C2: every POST /todos of an existing user is decided by the length of
\* the list and the pro flag as stated.
C2_QuotaDecision == [][C2_Step]_vars

\* the 11th creation of a non-pro user, refused
C2_Witness ==
    /\ req.route = "POST /todos"
    /\ response = Error(403, "User is not PRO")
    /\ Len(users[req.user].todos) = 10
    /\ ~users[req.user].pro

\* C3: a user whose list holds more than 10 tasks is pro.
C3_OverLimitOnlyPro ==
    \A i \in 1..Len(users) : Len(users[i].todos) > 10 => users[i].pro

\* a list that has passed 10 tasks
C3_Witness ==
    \E i \in 1..Len(users) : Len(users[i].todos) > 10 /\ users[i].pro

\* C4: checksTodoExists answers in a fixed priority order: an id that is not
\* a valid version-4 UUID gets 400 "Id is not uuid" whoever the user is;
\* otherwise an unknown username gets 404 "User not found"; otherwise an id
\* that is no task of that user gets 404 "Todo not found"; otherwise the
\* user and the task are attached and the request goes on.
C4_Step ==
    req = NoRequest /\ req' # NoRequest
      /\ (\E k \in 1..Len(ran') : ran'[k] = "checksTodoExists")
    => LET u == FirstByUsername(users, req'.username)
           byGuard == Answered' = "checksTodoExists"
       IN IF ~IsV4(req'.id)
          THEN byGuard /\ response' = Error(400, "Id is not uuid")
          ELSE IF u = 0
          THEN byGuard /\ response' = Error(404, "User not found")
          ELSE IF PositionsOf(users[u].todos, req'.id) = {}
          THEN byGuard /\ response' = Error(404, "Todo not found")
          ELSE /\ Answered' = "handler"
               /\ req'.user = u
               /\ Deref(users, req'.todo).id = req'.id

\* C4: every run of checksTodoExists answers by the priority order, with
\* 400 for every id that is not a version-4 UUID.
C4_TodoExistsOrder == [][C4_Step]_vars

\* C5: PATCH /users/:id/pro on a pro user answers 400 "Pro plan is already
\* activated." and leaves the store unchanged; on a non-pro user it sets
\* that user's pro flag, changes nothing else and answers 200.
C5_Step ==
    Served("PATCH /users/:id/pro") /\ FirstById(users, req'.id) # 0
    => LET u == FirstById(users, req'.id)
       IN IF users[u].pro
          THEN /\ response' = Error(400, "Pro plan is already activated.")
               /\ users' = users
          ELSE /\ response'.status = 200
               /\ users'[u].pro
               /\ users' = [users EXCEPT ![u].pro = TRUE]

\* C5: every PATCH /users/:id/pro refuses a pro user and changes nothing,
\* or sets the flag of a non-pro user and nothing else.
C5_Upgrade == [][C5_Step]_vars

\* an upgrade refused because the plan is active
C5_Witness ==
    /\ req.route = "PATCH /users/:id/pro"
    /\ response = Error(400, "Pro plan is already activated.")
    /\ users[req.user].pro

\* C6: once true, a user's pro and a task's done stay true as long as the
\* user or task exists, whatever the request.
C6_Step ==
    \A i \in 1..Len(users) :
       /\ i <= Len(users')
       /\ users[i].pro => users'[i].pro
       /\ \A p \in 1..Len(users[i].todos) :
             users[i].todos[p].done
             => \A j \in 1..Len(users') : \A q \in 1..Len(users'[j].todos) :
                   users'[j].todos[q].id = users[i].todos[p].id
                   => users'[j].todos[q].done

\* C6: no step makes a pro flag or a done flag false again.
C6_Monotonic == [][C6_Step]_vars

\* a task that is done, rewritten by PUT, of a user who is pro
C6_Witness ==
    /\ req.route = "PUT /todos/:id"
    /\ response.status = 200
    /\ response.body.val.done
    /\ response.body.val.title = req.body.title
    /\ users[req.user].pro

\* C7: a DELETE /todos/:id answered 204 removes exactly the task with that id
\* from the list of the user the header names: one entry less, the others in
\* their order, every other user untouched, and GET /todos of that user no
\* longer shows the task.
WithoutEntry(todos, p) ==
    [k \in 1..(Len(todos) - 1) |-> IF k < p THEN todos[k] ELSE todos[k + 1]]

C7_Step ==
    Served("DELETE /todos/:id") /\ response'.status = 204
    => LET u == FirstByUsername(users, req'.username)
           listing == Dispatch(users', nextId', NoTime,
                          Request("GET /todos", req'.username, NoId, NoBody))
       IN /\ u # 0
          /\ Cardinality({p \in 1..Len(users[u].todos) :
                             users[u].todos[p].id = req'.id}) = 1
          /\ \E p \in 1..Len(users[u].todos) :
                /\ users[u].todos[p].id = req'.id
                /\ users'[u].todos = WithoutEntry(users[u].todos, p)
          /\ Len(users'[u].todos) = Len(users[u].todos) - 1
          /\ Len(users') = Len(users)
          /\ \A j \in 1..Len(users) : j # u => users'[j] = users[j]
          /\ users'[u] = [users[u] EXCEPT !.todos = users'[u].todos]
          /\ listing.response.status = 200
          /\ \A k \in 1..Len(listing.response.body.val) :
                listing.response.body.val[k].id # req'.id

\* no GET /todos ever shows a task that was deleted
C7_Listing ==
    req.route = "GET /todos" /\ response.status = 200
    => \A k \in 1..Len(response.body.val) : response.body.val[k].id \notin deleted

\* C7: every DELETE answered 204 removes exactly the addressed task, and no
\* GET /todos shows a deleted task.
C7_DeleteRemovesOne == [][C7_Step]_vars /\ [](C7_Listing)

\* the middle one of three tasks, deleted
C7_Witness ==
    /\ req.route = "DELETE /todos/:id"
    /\ response.status = 204
    /\ Len(users[req.user].todos) = 2
    /\ users[req.user].todos[1].id.n < req.id.n
    /\ req.id.n < users[req.user].todos[2].id.n

\* C8: the middlewares of a route run in the order of its declaration, the
\* first that fails answers, the handler runs only after all of them went
\* on; DELETE /todos/:id with an unknown username answers 404 "User not
\* found!" before the id is looked at, POST /todos with an unknown username
\* answers 404 and never 403.
Declared(route) ==
    CASE route = "POST /todos" ->
             <<"checksExistsUserAccount", "checksCreateTodosUserAvailability">>
      [] route = "DELETE /todos/:id" ->
             <<"checksExistsUserAccount", "checksTodoExists">>
      [] route \in {"PUT /todos/:id", "PATCH /todos/:id/done"} ->
             <<"checksTodoExists">>
      [] route = "GET /todos" -> <<"checksExistsUserAccount">>
      [] route \in {"GET /users/:id", "PATCH /users/:id/pro"} ->
             <<"findUserById">>
      [] OTHER -> <<>>

C8_Step ==
    req = NoRequest /\ req' # NoRequest
    => LET order == Declared(req'.route)
           n == Len(ran')
           unknown == FirstByUsername(users, req'.username) = 0
       IN /\ n >= 1
          /\ response'.status # 0
          /\ IF Answered' = "handler"
             THEN ran' = Append(order, "handler")
             ELSE /\ n <= Len(order)
                  /\ ran' = SubSeq(order, 1, n)
                  /\ response'.status >= 400
                  /\ users' = users
          /\ req'.route = "DELETE /todos/:id" /\ unknown
             => /\ response' = Error(404, "User not found!")
                /\ ran' = <<"checksExistsUserAccount">>
          /\ req'.route = "POST /todos" /\ unknown
             => /\ response' = Error(404, "User not found!")
                /\ ran' = <<"checksExistsUserAccount">>

\* C8: every request runs its middlewares in the declared order up to the
\* first that answers.
C8_GuardOrder == [][C8_Step]_vars

\* a DELETE with an unknown username and a malformed id: the username decides
C8_Witness ==
    /\ req.route = "DELETE /todos/:id"
    /\ req.id = NotUuid
    /\ response = Error(404, "User not found!")
    /\ ran = <<"checksExistsUserAccount">>

\* C9: when the DELETE handler runs, the attached task is an element of the
\* attached user's list, so the handler never answers 404 itself: every
\* DELETE that reaches the handler ends with 204.
C9_Step ==
    Served("DELETE /todos/:id") /\ Answered' = "handler"
    => /\ req'.user \in 1..Len(users)
       /\ req'.todo.owner = req'.user
       /\ req'.todo.pos \in 0..(Len(users[req'.user].todos) - 1)
       /\ users[req'.user].todos[req'.todo.pos + 1].id = req'.id
       /\ response'.status = 204

\* C9: every DELETE that reaches its handler finds the task and ends 204.
C9_DefensiveUnreachable == [][C9_Step]_vars

\* a DELETE that reached its handler, while another user has tasks too
C9_Witness ==
    /\ req.route = "DELETE /todos/:id"
    /\ Answered = "handler"
    /\ \E j \in 1..Len(users) : j # req.user /\ users[j].todos # <<>>

\* C10: a /todos request with header username u reads and changes only the
\* list of the user named u; PUT, PATCH done and DELETE with the id of
\* another user's task answer 404 "Todo not found" and change nothing.
TodoRoutes ==
    {"GET /todos", "POST /todos", "PUT /todos/:id", "PATCH /todos/:id/done",
     "DELETE /todos/:id"}

C10_Step ==
    req = NoRequest /\ req'.route \in TodoRoutes
    => LET u == FirstByUsername(users, req'.username)
           foreign == \E j \in 1..Len(users) :
                         j # u /\ PositionsOf(users[j].todos, req'.id) # {}
       IN /\ Len(users') = Len(users)
          /\ \A j \in 1..Len(users) : j # u => users'[j] = users[j]
          /\ u # 0 => users' = [users EXCEPT ![u].todos = users'[u].todos]
          /\ req'.route = "GET /todos" /\ u # 0
             => response' = Json(200, "todos", users[u].todos)
          /\ req'.route \in {"POST /todos", "PUT /todos/:id",
                             "PATCH /todos/:id/done"}
                /\ response'.status < 400
             => \E p \in 1..Len(users'[u].todos) :
                   users'[u].todos[p] = response'.body.val
          /\ req'.route \in {"PUT /todos/:id", "PATCH /todos/:id/done",
                             "DELETE /todos/:id"} /\ u # 0 /\ foreign
             => /\ response' = Error(404, "Todo not found")
                /\ users' = users

\* C10: every /todos request reads and changes only the list of the user
\* its header names.
C10_Isolation == [][C10_Step]_vars

\* a PUT on another user's task, refused, while the sender has a task too
C10_Witness ==
    /\ req.route = "PUT /todos/:id"
    /\ response = Error(404, "Todo not found")
    /\ \E u, j \in 1..Len(users) :
          /\ users[u].username = req.username
          /\ j # u
          /\ users[u].todos # <<>>
          /\ PositionsOf(users[j].todos, req.id) # {}

====
